---- MODULE Spec2Model ----
(***************************************************************************)
(* The ChitFund ledger of src/src/contracts/chit.sol as a state machine.   *)
(* Every external function is one transaction: the EVM runs transactions   *)
(* one after the other, and a failed require reverts every storage write   *)
(* and every log entry of the transaction.                                 *)
(***************************************************************************)
EXTENDS Integers, Sequences, FiniteSets, TLC

\* ------------------------------------------------------------------ bounds
\* The number of pools created, the clock, and the sum of the participant
\* limits of the pools created.
MaxChits == 2
MaxTime == 2
MaxSlots == 4

\* The callers (msg.sender): three distinct addresses.
Members == {"a1", "a2", "a3"}

\* Keys of the mappings that the model looks at: 0, the ids that can be
\* allocated, and one key beyond them.
Ids == 0 .. (MaxChits + 1)

\* Inputs of createChit. A string is the sequence of its bytes.
Strings == {<<>>, <<"x">>}
Amounts == {0, 1}

\* <<title, description, totalAmount, installmentAmount>>: all four valid,
\* each one alone invalid, and all four invalid.
Forms ==
    {f \in Strings \X Strings \X Amounts \X Amounts :
        LET bad == (IF Len(f[1]) = 0 THEN 1 ELSE 0)
                   + (IF Len(f[2]) = 0 THEN 1 ELSE 0)
                   + (IF f[3] = 0 THEN 1 ELSE 0)
                   + (IF f[4] = 0 THEN 1 ELSE 0)
        IN  bad \in {0, 1, 4}}
Limits == {0, 1, 2, 3}
Deadlines == {0, 1}

\* chitCounter, chits, userChits: the contract's storage (chit.sol 28-30).
\* log: the events emitted so far, in order (chit.sol 87, 111).
\* now: block.timestamp.
\* last: the latest call and its outcome, "ok" or the revert reason.
VARIABLES chitCounter, chits, userChits, log, now, last

vars == <<chitCounter, chits, userChits, log, now, last>>

\* ------------------------------------------------------------------- state
\* The value every key of the mapping chits holds before it is written.
ZeroChit ==
    [id |-> 0, title |-> <<>>, description |-> <<>>, totalAmount |-> 0,
     installmentAmount |-> 0, deadline |-> 0, createdAt |-> 0,
     participantLimit |-> 0, participants |-> <<>>, isCompleted |-> FALSE]

\* The contract's storage and the log of the events it emitted.
Ledger ==
    [chitCounter |-> chitCounter, chits |-> chits, userChits |-> userChits,
     log |-> log]

\* A transaction that fails a require: the reason, and the state rolled back.
Revert(S, reason) == [res |-> reason, st |-> S]

\* Counters.increment and Counters.current.
increment(S) == [S EXCEPT !.chitCounter = @ + 1]

current(S) == S.chitCounter

\* --------------------------------------------------------------- functions
\* The scan started one element late: the creator is never found.
isParticipantSkipsFirst(S, chitId, participant) ==
    \E i \in 2 .. Len(S.chits[chitId].participants) :
        S.chits[chitId].participants[i] = participant

isParticipant(S, chitId, participant) ==
    \E i \in 1 .. Len(S.chits[chitId].participants) :
        S.chits[chitId].participants[i] = participant

\* The id read before the counter is incremented.
createChitIdBeforeIncrement(S, sender, title, description, totalAmount, installmentAmount, participantLimit, deadline, t) ==
    IF ~(Len(title) > 0) THEN Revert(S, "Title is required.")
    ELSE IF ~(Len(description) > 0) THEN Revert(S, "Description is required.")
    ELSE IF ~(totalAmount > 0)
        THEN Revert(S, "Total amount must be greater than zero.")
    ELSE IF ~(installmentAmount > 0)
        THEN Revert(S, "Installment amount must be greater than zero.")
    ELSE IF ~(participantLimit > 0)
        THEN Revert(S, "Participant limit must be greater than zero.")
    ELSE IF ~(deadline > t) THEN Revert(S, "Deadline must be in the future.")
    ELSE
        LET newChitId == current(S)
            S1 == increment(S)
            newChit ==
                [S1.chits[newChitId] EXCEPT
                    !.id = newChitId,
                    !.title = title,
                    !.description = description,
                    !.totalAmount = totalAmount,
                    !.installmentAmount = installmentAmount,
                    !.deadline = deadline,
                    !.createdAt = t,
                    !.participantLimit = participantLimit,
                    !.participants = Append(@, sender)]
            S2 == [S1 EXCEPT !.chits[newChitId] = newChit]
            S3 == [S2 EXCEPT !.userChits[sender] = Append(@, newChitId)]
            S4 == [S3 EXCEPT !.log = Append(@,
                      [name |-> "ChitCreated", id |-> newChitId,
                       title |-> title, totalAmount |-> totalAmount,
                       participantLimit |-> participantLimit,
                       creator |-> sender])]
        IN  [res |-> "ok", st |-> S4]

\* The counter incremented before the deadline is validated, and the failing
\* path returning without undoing it.
createChitAllocatesFirst(S, sender, title, description, totalAmount, installmentAmount, participantLimit, deadline, t) ==
    IF ~(Len(title) > 0) THEN Revert(S, "Title is required.")
    ELSE IF ~(Len(description) > 0) THEN Revert(S, "Description is required.")
    ELSE IF ~(totalAmount > 0)
        THEN Revert(S, "Total amount must be greater than zero.")
    ELSE IF ~(installmentAmount > 0)
        THEN Revert(S, "Installment amount must be greater than zero.")
    ELSE IF ~(participantLimit > 0)
        THEN Revert(S, "Participant limit must be greater than zero.")
    ELSE
        LET S1 == increment(S)
            newChitId == current(S1)
            newChit ==
                [S1.chits[newChitId] EXCEPT
                    !.id = newChitId,
                    !.title = title,
                    !.description = description,
                    !.totalAmount = totalAmount,
                    !.installmentAmount = installmentAmount,
                    !.deadline = deadline,
                    !.createdAt = t,
                    !.participantLimit = participantLimit,
                    !.participants = Append(@, sender)]
            S2 == [S1 EXCEPT !.chits[newChitId] = newChit]
            S3 == [S2 EXCEPT !.userChits[sender] = Append(@, newChitId)]
            S4 == [S3 EXCEPT !.log = Append(@,
                      [name |-> "ChitCreated", id |-> newChitId,
                       title |-> title, totalAmount |-> totalAmount,
                       participantLimit |-> participantLimit,
                       creator |-> sender])]
        IN  IF ~(deadline > t)
            THEN [res |-> "Deadline must be in the future.", st |-> S1]
            ELSE [res |-> "ok", st |-> S4]

\* The deadline require with >= for >.
createChitDeadlineInclusive(S, sender, title, description, totalAmount, installmentAmount, participantLimit, deadline, t) ==
    IF ~(Len(title) > 0) THEN Revert(S, "Title is required.")
    ELSE IF ~(Len(description) > 0) THEN Revert(S, "Description is required.")
    ELSE IF ~(totalAmount > 0)
        THEN Revert(S, "Total amount must be greater than zero.")
    ELSE IF ~(installmentAmount > 0)
        THEN Revert(S, "Installment amount must be greater than zero.")
    ELSE IF ~(participantLimit > 0)
        THEN Revert(S, "Participant limit must be greater than zero.")
    ELSE IF ~(deadline >= t) THEN Revert(S, "Deadline must be in the future.")
    ELSE
        LET S1 == increment(S)
            newChitId == current(S1)
            newChit ==
                [S1.chits[newChitId] EXCEPT
                    !.id = newChitId,
                    !.title = title,
                    !.description = description,
                    !.totalAmount = totalAmount,
                    !.installmentAmount = installmentAmount,
                    !.deadline = deadline,
                    !.createdAt = t,
                    !.participantLimit = participantLimit,
                    !.participants = Append(@, sender)]
            S2 == [S1 EXCEPT !.chits[newChitId] = newChit]
            S3 == [S2 EXCEPT !.userChits[sender] = Append(@, newChitId)]
            S4 == [S3 EXCEPT !.log = Append(@,
                      [name |-> "ChitCreated", id |-> newChitId,
                       title |-> title, totalAmount |-> totalAmount,
                       participantLimit |-> participantLimit,
                       creator |-> sender])]
        IN  [res |-> "ok", st |-> S4]

\* The participantLimit require left out.
createChitNoLimitCheck(S, sender, title, description, totalAmount, installmentAmount, participantLimit, deadline, t) ==
    IF ~(Len(title) > 0) THEN Revert(S, "Title is required.")
    ELSE IF ~(Len(description) > 0) THEN Revert(S, "Description is required.")
    ELSE IF ~(totalAmount > 0)
        THEN Revert(S, "Total amount must be greater than zero.")
    ELSE IF ~(installmentAmount > 0)
        THEN Revert(S, "Installment amount must be greater than zero.")
    ELSE IF ~(deadline > t) THEN Revert(S, "Deadline must be in the future.")
    ELSE
        LET S1 == increment(S)
            newChitId == current(S1)
            newChit ==
                [S1.chits[newChitId] EXCEPT
                    !.id = newChitId,
                    !.title = title,
                    !.description = description,
                    !.totalAmount = totalAmount,
                    !.installmentAmount = installmentAmount,
                    !.deadline = deadline,
                    !.createdAt = t,
                    !.participantLimit = participantLimit,
                    !.participants = Append(@, sender)]
            S2 == [S1 EXCEPT !.chits[newChitId] = newChit]
            S3 == [S2 EXCEPT !.userChits[sender] = Append(@, newChitId)]
            S4 == [S3 EXCEPT !.log = Append(@,
                      [name |-> "ChitCreated", id |-> newChitId,
                       title |-> title, totalAmount |-> totalAmount,
                       participantLimit |-> participantLimit,
                       creator |-> sender])]
        IN  [res |-> "ok", st |-> S4]

\* The assignment of newChit.id left out.
createChitNoIdField(S, sender, title, description, totalAmount, installmentAmount, participantLimit, deadline, t) ==
    IF ~(Len(title) > 0) THEN Revert(S, "Title is required.")
    ELSE IF ~(Len(description) > 0) THEN Revert(S, "Description is required.")
    ELSE IF ~(totalAmount > 0)
        THEN Revert(S, "Total amount must be greater than zero.")
    ELSE IF ~(installmentAmount > 0)
        THEN Revert(S, "Installment amount must be greater than zero.")
    ELSE IF ~(participantLimit > 0)
        THEN Revert(S, "Participant limit must be greater than zero.")
    ELSE IF ~(deadline > t) THEN Revert(S, "Deadline must be in the future.")
    ELSE
        LET S1 == increment(S)
            newChitId == current(S1)
            newChit ==
                [S1.chits[newChitId] EXCEPT
                    !.title = title,
                    !.description = description,
                    !.totalAmount = totalAmount,
                    !.installmentAmount = installmentAmount,
                    !.deadline = deadline,
                    !.createdAt = t,
                    !.participantLimit = participantLimit,
                    !.participants = Append(@, sender)]
            S2 == [S1 EXCEPT !.chits[newChitId] = newChit]
            S3 == [S2 EXCEPT !.userChits[sender] = Append(@, newChitId)]
            S4 == [S3 EXCEPT !.log = Append(@,
                      [name |-> "ChitCreated", id |-> newChitId,
                       title |-> title, totalAmount |-> totalAmount,
                       participantLimit |-> participantLimit,
                       creator |-> sender])]
        IN  [res |-> "ok", st |-> S4]

\* The push to userChits left out.
createChitNoIndex(S, sender, title, description, totalAmount, installmentAmount, participantLimit, deadline, t) ==
    IF ~(Len(title) > 0) THEN Revert(S, "Title is required.")
    ELSE IF ~(Len(description) > 0) THEN Revert(S, "Description is required.")
    ELSE IF ~(totalAmount > 0)
        THEN Revert(S, "Total amount must be greater than zero.")
    ELSE IF ~(installmentAmount > 0)
        THEN Revert(S, "Installment amount must be greater than zero.")
    ELSE IF ~(participantLimit > 0)
        THEN Revert(S, "Participant limit must be greater than zero.")
    ELSE IF ~(deadline > t) THEN Revert(S, "Deadline must be in the future.")
    ELSE
        LET S1 == increment(S)
            newChitId == current(S1)
            newChit ==
                [S1.chits[newChitId] EXCEPT
                    !.id = newChitId,
                    !.title = title,
                    !.description = description,
                    !.totalAmount = totalAmount,
                    !.installmentAmount = installmentAmount,
                    !.deadline = deadline,
                    !.createdAt = t,
                    !.participantLimit = participantLimit,
                    !.participants = Append(@, sender)]
            S2 == [S1 EXCEPT !.chits[newChitId] = newChit]
            S3 == S2
            S4 == [S3 EXCEPT !.log = Append(@,
                      [name |-> "ChitCreated", id |-> newChitId,
                       title |-> title, totalAmount |-> totalAmount,
                       participantLimit |-> participantLimit,
                       creator |-> sender])]
        IN  [res |-> "ok", st |-> S4]

createChit(S, sender, title, description, totalAmount, installmentAmount, participantLimit, deadline, t) ==
    IF ~(Len(title) > 0) THEN Revert(S, "Title is required.")
    ELSE IF ~(Len(description) > 0) THEN Revert(S, "Description is required.")
    ELSE IF ~(totalAmount > 0)
        THEN Revert(S, "Total amount must be greater than zero.")
    ELSE IF ~(installmentAmount > 0)
        THEN Revert(S, "Installment amount must be greater than zero.")
    ELSE IF ~(participantLimit > 0)
        THEN Revert(S, "Participant limit must be greater than zero.")
    ELSE IF ~(deadline > t) THEN Revert(S, "Deadline must be in the future.")
    ELSE
        LET S1 == increment(S)
            newChitId == current(S1)
            newChit ==
                [S1.chits[newChitId] EXCEPT
                    !.id = newChitId,
                    !.title = title,
                    !.description = description,
                    !.totalAmount = totalAmount,
                    !.installmentAmount = installmentAmount,
                    !.deadline = deadline,
                    !.createdAt = t,
                    !.participantLimit = participantLimit,
                    !.participants = Append(@, sender)]
            S2 == [S1 EXCEPT !.chits[newChitId] = newChit]
            S3 == [S2 EXCEPT !.userChits[sender] = Append(@, newChitId)]
            S4 == [S3 EXCEPT !.log = Append(@,
                      [name |-> "ChitCreated", id |-> newChitId,
                       title |-> title, totalAmount |-> totalAmount,
                       participantLimit |-> participantLimit,
                       creator |-> sender])]
        IN  [res |-> "ok", st |-> S4]

\* The capacity require left out.
joinChitNoCapacityCheck(S, sender, chitId, t) ==
    LET chit == S.chits[chitId] IN
    IF ~(chit.id # 0) THEN Revert(S, "Chit does not exist.")
    ELSE IF ~(t < chit.deadline) THEN Revert(S, "Cannot join after deadline.")
    ELSE IF ~(~isParticipant(S, chitId, sender))
        THEN Revert(S, "Already joined this chit.")
    ELSE
        LET S1 == [S EXCEPT !.chits[chitId].participants = Append(@, sender)]
            S2 == [S1 EXCEPT !.userChits[sender] = Append(@, chitId)]
            S3 == [S2 EXCEPT !.log = Append(@,
                      [name |-> "JoinedChit", id |-> chitId,
                       participant |-> sender])]
        IN  [res |-> "ok", st |-> S3]

\* The push to userChits left out.
joinChitNoIndex(S, sender, chitId, t) ==
    LET chit == S.chits[chitId] IN
    IF ~(chit.id # 0) THEN Revert(S, "Chit does not exist.")
    ELSE IF ~(t < chit.deadline) THEN Revert(S, "Cannot join after deadline.")
    ELSE IF ~(Len(chit.participants) < chit.participantLimit)
        THEN Revert(S, "Chit is full.")
    ELSE IF ~(~isParticipant(S, chitId, sender))
        THEN Revert(S, "Already joined this chit.")
    ELSE
        LET S1 == [S EXCEPT !.chits[chitId].participants = Append(@, sender)]
            S2 == S1
            S3 == [S2 EXCEPT !.log = Append(@,
                      [name |-> "JoinedChit", id |-> chitId,
                       participant |-> sender])]
        IN  [res |-> "ok", st |-> S3]

\* The capacity require placed before the deadline require.
joinChitCapacityFirst(S, sender, chitId, t) ==
    LET chit == S.chits[chitId] IN
    IF ~(chit.id # 0) THEN Revert(S, "Chit does not exist.")
    ELSE IF ~(Len(chit.participants) < chit.participantLimit)
        THEN Revert(S, "Chit is full.")
    ELSE IF ~(t < chit.deadline) THEN Revert(S, "Cannot join after deadline.")
    ELSE IF ~(~isParticipant(S, chitId, sender))
        THEN Revert(S, "Already joined this chit.")
    ELSE
        LET S1 == [S EXCEPT !.chits[chitId].participants = Append(@, sender)]
            S2 == [S1 EXCEPT !.userChits[sender] = Append(@, chitId)]
            S3 == [S2 EXCEPT !.log = Append(@,
                      [name |-> "JoinedChit", id |-> chitId,
                       participant |-> sender])]
        IN  [res |-> "ok", st |-> S3]

\* The capacity require with <= for <.
joinChitCapacityOffByOne(S, sender, chitId, t) ==
    LET chit == S.chits[chitId] IN
    IF ~(chit.id # 0) THEN Revert(S, "Chit does not exist.")
    ELSE IF ~(t < chit.deadline) THEN Revert(S, "Cannot join after deadline.")
    ELSE IF ~(Len(chit.participants) <= chit.participantLimit)
        THEN Revert(S, "Chit is full.")
    ELSE IF ~(~isParticipant(S, chitId, sender))
        THEN Revert(S, "Already joined this chit.")
    ELSE
        LET S1 == [S EXCEPT !.chits[chitId].participants = Append(@, sender)]
            S2 == [S1 EXCEPT !.userChits[sender] = Append(@, chitId)]
            S3 == [S2 EXCEPT !.log = Append(@,
                      [name |-> "JoinedChit", id |-> chitId,
                       participant |-> sender])]
        IN  [res |-> "ok", st |-> S3]

\* The duplicate-membership require left out.
joinChitNoDuplicateCheck(S, sender, chitId, t) ==
    LET chit == S.chits[chitId] IN
    IF ~(chit.id # 0) THEN Revert(S, "Chit does not exist.")
    ELSE IF ~(t < chit.deadline) THEN Revert(S, "Cannot join after deadline.")
    ELSE IF ~(Len(chit.participants) < chit.participantLimit)
        THEN Revert(S, "Chit is full.")
    ELSE
        LET S1 == [S EXCEPT !.chits[chitId].participants = Append(@, sender)]
            S2 == [S1 EXCEPT !.userChits[sender] = Append(@, chitId)]
            S3 == [S2 EXCEPT !.log = Append(@,
                      [name |-> "JoinedChit", id |-> chitId,
                       participant |-> sender])]
        IN  [res |-> "ok", st |-> S3]

\* The deadline require with <= for <.
joinChitDeadlineInclusive(S, sender, chitId, t) ==
    LET chit == S.chits[chitId] IN
    IF ~(chit.id # 0) THEN Revert(S, "Chit does not exist.")
    ELSE IF ~(t <= chit.deadline) THEN Revert(S, "Cannot join after deadline.")
    ELSE IF ~(Len(chit.participants) < chit.participantLimit)
        THEN Revert(S, "Chit is full.")
    ELSE IF ~(~isParticipant(S, chitId, sender))
        THEN Revert(S, "Already joined this chit.")
    ELSE
        LET S1 == [S EXCEPT !.chits[chitId].participants = Append(@, sender)]
            S2 == [S1 EXCEPT !.userChits[sender] = Append(@, chitId)]
            S3 == [S2 EXCEPT !.log = Append(@,
                      [name |-> "JoinedChit", id |-> chitId,
                       participant |-> sender])]
        IN  [res |-> "ok", st |-> S3]

\* The new participant put at the front of the array.
joinChitPrepends(S, sender, chitId, t) ==
    LET chit == S.chits[chitId] IN
    IF ~(chit.id # 0) THEN Revert(S, "Chit does not exist.")
    ELSE IF ~(t < chit.deadline) THEN Revert(S, "Cannot join after deadline.")
    ELSE IF ~(Len(chit.participants) < chit.participantLimit)
        THEN Revert(S, "Chit is full.")
    ELSE IF ~(~isParticipant(S, chitId, sender))
        THEN Revert(S, "Already joined this chit.")
    ELSE
        LET S1 == [S EXCEPT !.chits[chitId].participants = <<sender>> \o @]
            S2 == [S1 EXCEPT !.userChits[sender] = Append(@, chitId)]
            S3 == [S2 EXCEPT !.log = Append(@,
                      [name |-> "JoinedChit", id |-> chitId,
                       participant |-> sender])]
        IN  [res |-> "ok", st |-> S3]

\* The emit left out.
joinChitNoEvent(S, sender, chitId, t) ==
    LET chit == S.chits[chitId] IN
    IF ~(chit.id # 0) THEN Revert(S, "Chit does not exist.")
    ELSE IF ~(t < chit.deadline) THEN Revert(S, "Cannot join after deadline.")
    ELSE IF ~(Len(chit.participants) < chit.participantLimit)
        THEN Revert(S, "Chit is full.")
    ELSE IF ~(~isParticipant(S, chitId, sender))
        THEN Revert(S, "Already joined this chit.")
    ELSE
        LET S1 == [S EXCEPT !.chits[chitId].participants = Append(@, sender)]
            S2 == [S1 EXCEPT !.userChits[sender] = Append(@, chitId)]
        IN  [res |-> "ok", st |-> S2]

\* The pool marked completed by the join that fills it.
joinChitCompletes(S, sender, chitId, t) ==
    LET chit == S.chits[chitId] IN
    IF ~(chit.id # 0) THEN Revert(S, "Chit does not exist.")
    ELSE IF ~(t < chit.deadline) THEN Revert(S, "Cannot join after deadline.")
    ELSE IF ~(Len(chit.participants) < chit.participantLimit)
        THEN Revert(S, "Chit is full.")
    ELSE IF ~(~isParticipant(S, chitId, sender))
        THEN Revert(S, "Already joined this chit.")
    ELSE
        LET S1 == [S EXCEPT !.chits[chitId].participants = Append(@, sender)]
            S1c == [S1 EXCEPT !.chits[chitId].isCompleted =
                        (Len(S1.chits[chitId].participants)
                            = chit.participantLimit)]
            S2 == [S1c EXCEPT !.userChits[sender] = Append(@, chitId)]
            S3 == [S2 EXCEPT !.log = Append(@,
                      [name |-> "JoinedChit", id |-> chitId,
                       participant |-> sender])]
        IN  [res |-> "ok", st |-> S3]

\* The deadline require left out.
joinChitNoDeadlineCheck(S, sender, chitId, t) ==
    LET chit == S.chits[chitId] IN
    IF ~(chit.id # 0) THEN Revert(S, "Chit does not exist.")
    ELSE IF ~(Len(chit.participants) < chit.participantLimit)
        THEN Revert(S, "Chit is full.")
    ELSE IF ~(~isParticipant(S, chitId, sender))
        THEN Revert(S, "Already joined this chit.")
    ELSE
        LET S1 == [S EXCEPT !.chits[chitId].participants = Append(@, sender)]
            S2 == [S1 EXCEPT !.userChits[sender] = Append(@, chitId)]
            S3 == [S2 EXCEPT !.log = Append(@,
                      [name |-> "JoinedChit", id |-> chitId,
                       participant |-> sender])]
        IN  [res |-> "ok", st |-> S3]

joinChit(S, sender, chitId, t) ==
    LET chit == S.chits[chitId] IN
    IF ~(chit.id # 0) THEN Revert(S, "Chit does not exist.")
    ELSE IF ~(t < chit.deadline) THEN Revert(S, "Cannot join after deadline.")
    ELSE IF ~(Len(chit.participants) < chit.participantLimit)
        THEN Revert(S, "Chit is full.")
    ELSE IF ~(~isParticipant(S, chitId, sender))
        THEN Revert(S, "Already joined this chit.")
    ELSE
        LET S1 == [S EXCEPT !.chits[chitId].participants = Append(@, sender)]
            S2 == [S1 EXCEPT !.userChits[sender] = Append(@, chitId)]
            S3 == [S2 EXCEPT !.log = Append(@,
                      [name |-> "JoinedChit", id |-> chitId,
                       participant |-> sender])]
        IN  [res |-> "ok", st |-> S3]

\* A view function: no require, so it never reverts.
getParticipants(S, chitId) ==
    [res |-> "ok", ret |-> S.chits[chitId].participants]

\* The loop copying chits[i - 1] for chits[i]: the record at key 0 comes
\* first and the newest pool is left out.
getChitsFromZero(S) ==
    [res |-> "ok",
     ret |-> [i \in 1 .. current(S) |-> S.chits[i - 1]]]

getChits(S) ==
    [res |-> "ok",
     ret |-> [i \in 1 .. current(S) |-> S.chits[i]]]

\* ------------------------------------------------------------------ client
\* The value JavaScript gives for a property an object does not have.
undefined == "undefined"

\* An address as ethers hands it to the client: the checksummed hex string.
checksumAddress(a) ==
    CASE a = "a1" -> "0xA1"
      [] a = "a2" -> "0xA2"
      [] a = "a3" -> "0xA3"

\* String.prototype.toLowerCase.
toLowerCase(s) ==
    CASE s = "0xA1" -> "0xa1"
      [] s = "0xA2" -> "0xa2"
      [] s = "0xA3" -> "0xa3"
      [] OTHER -> s

\* x?.toLowerCase()
optToLowerCase(x) == IF x = undefined THEN undefined ELSE toLowerCase(x)

\* A struct returned by contract.getChits(), decoded: the fields of Chit,
\* the participants as address strings.
decodeChit(chit) ==
    [chit EXCEPT !.participants = [i \in 1 .. Len(@) |-> checksumAddress(@[i])]]

\* Whether the decoded struct has a field of that name.
has(chit, name) == name \in DOMAIN chit

\* chit.<name>: a field of the decoded struct, or undefined.
prop(chit, name) == IF has(chit, name) THEN chit[name] ELSE undefined

\* participant.wallet: a participant is an address string, and a string has
\* no property wallet.
wallet(participant) == undefined

\* The list that fetchCreatedChits passes to setCreatedChits.
fetchCreatedChits(S, walletAddress) ==
    LET allChits == [i \in DOMAIN getChits(S).ret |-> decodeChit(getChits(S).ret[i])]
        keep(chit) ==
            optToLowerCase(prop(chit, "creator")) = toLowerCase(walletAddress)
    IN  SelectSeq(allChits, keep)

\* The list that fetchMyChits passes to setMyChits.
fetchMyChits(S, walletAddress) ==
    LET allChits == [i \in DOMAIN getChits(S).ret |-> decodeChit(getChits(S).ret[i])]
        keep(chit) ==
            /\ has(chit, "participants")
            /\ \E i \in 1 .. Len(chit.participants) :
                optToLowerCase(wallet(chit.participants[i]))
                    = toLowerCase(walletAddress)
    IN  SelectSeq(allChits, keep)

\* ----------------------------------------------------------------- actions
Init ==
    /\ chitCounter = 0
    /\ chits = [i \in Ids |-> ZeroChit]
    /\ userChits = [m \in Members |-> <<>>]
    /\ log = <<>>
    /\ now = 0
    /\ last = [op |-> "none", res |-> "none"]

Commit(S) ==
    /\ chitCounter' = S.chitCounter
    /\ chits' = S.chits
    /\ userChits' = S.userChits
    /\ log' = S.log

\* The participant limits of pools 1 .. n, added up.
RECURSIVE SlotsUsed(_)
SlotsUsed(n) ==
    IF n = 0 THEN 0 ELSE chits[n].participantLimit + SlotsUsed(n - 1)

CreateChit ==
    /\ chitCounter < MaxChits
    /\ \E participantLimit \in Limits :
        /\ SlotsUsed(chitCounter) + participantLimit <= MaxSlots
        /\ \E sender \in Members, f \in Forms, deadline \in Deadlines :
            LET r == createChit(Ledger, sender, f[1], f[2], f[3], f[4],
                                participantLimit, deadline, now)
            IN  /\ Commit(r.st)
                /\ last' = [op |-> "createChit", res |-> r.res]
                /\ UNCHANGED now

JoinChit ==
    \E sender \in Members, chitId \in Ids :
        LET r == joinChit(Ledger, sender, chitId, now)
        IN  /\ Commit(r.st)
            /\ last' = [op |-> "joinChit", res |-> r.res]
            /\ UNCHANGED now

GetParticipants ==
    \E chitId \in Ids :
        LET r == getParticipants(Ledger, chitId)
        IN  /\ last' = [op |-> "getParticipants", res |-> r.res]
            /\ UNCHANGED <<chitCounter, chits, userChits, log, now>>

GetChits ==
    LET r == getChits(Ledger)
    IN  /\ last' = [op |-> "getChits", res |-> r.res]
        /\ UNCHANGED <<chitCounter, chits, userChits, log, now>>

\* block.timestamp of the next block.
Tick ==
    /\ now < MaxTime
    /\ now' = now + 1
    /\ last' = [op |-> "none", res |-> "none"]
    /\ UNCHANGED <<chitCounter, chits, userChits, log>>

Next == CreateChit \/ JoinChit \/ GetParticipants \/ GetChits \/ Tick

Spec == Init /\ [][Next]_vars

\* ------------------------------------------------------- claim vocabulary
Range(s) == {s[i] : i \in 1 .. Len(s)}

\* The pools that exist: the ids allocated so far.
PoolIds == 1 .. chitCounter

\* The error taxonomy of the specification, by revert reason.
ErrorKind(reason) ==
    CASE reason = "ok" -> "ok"
      [] reason = "Title is required." -> "InvalidInput"
      [] reason = "Description is required." -> "InvalidInput"
      [] reason = "Total amount must be greater than zero." -> "InvalidInput"
      [] reason = "Installment amount must be greater than zero."
            -> "InvalidInput"
      [] reason = "Participant limit must be greater than zero."
            -> "InvalidInput"
      [] reason = "Deadline must be in the future." -> "InvalidDeadline"
      [] reason = "Chit does not exist." -> "NotFound"
      [] reason = "Cannot join after deadline." -> "Expired"
      [] reason = "Chit is full." -> "Full"
      [] reason = "Already joined this chit." -> "AlreadyJoined"

IsChitCreated(e) == e.name = "ChitCreated"

IsJoinedChit(e) == e.name = "JoinedChit"

\* The ids of the successful creations, in commit order.
CreatedIds ==
    LET c == SelectSeq(log, IsChitCreated)
    IN  [i \in 1 .. Len(c) |-> c[i].id]

Full(id) == Len(chits[id].participants) >= chits[id].participantLimit

Expired(id) == now >= chits[id].deadline

\* ------------------------------------------------------------------ claims
\* C1: the n-th successful createChit gets id n: the ids of the creations,
\* in commit order, are 1, 2, 3, ... with no gap and no repeat, whatever
\* joinChit calls come in between.
C1_IdsInCommitOrder ==
    /\ \A i \in 1 .. Len(CreatedIds) : CreatedIds[i] = i
    /\ \A i, j \in 1 .. Len(CreatedIds) :
            CreatedIds[i] = CreatedIds[j] => i = j

C1_Witness ==
    /\ Len(CreatedIds) >= 2
    /\ \E i \in 1 .. Len(log) - 1 :
        /\ IsJoinedChit(log[i])
        /\ IsChitCreated(log[i + 1])

\* C2: no pool ever holds more participants than its participantLimit.
C2_WithinLimit ==
    \A id \in Ids : Len(chits[id].participants) <= chits[id].participantLimit

\* One pool of limit 2 whose last slot was taken by a join, and a further
\* join that was refused as full.
C2_Witness ==
    /\ chitCounter = 1
    /\ chits[1].participantLimit = 2
    /\ Len(chits[1].participants) = 2
    /\ last = [op |-> "joinChit", res |-> "Chit is full."]

\* C3: no member appears twice in the participants of a pool.
C3_NoDuplicates ==
    \A id \in Ids :
        \A i, j \in 1 .. Len(chits[id].participants) :
            chits[id].participants[i] = chits[id].participants[j] => i = j

\* No pool is full while open, one open pool has two participants, and a
\* repeated join was refused.
C3_Witness ==
    /\ \E id \in PoolIds :
        /\ Len(chits[id].participants) = 2
        /\ ~Expired(id)
    /\ \A id \in PoolIds : ~Full(id) \/ Expired(id)
    /\ last = [op |-> "joinChit", res |-> "Already joined this chit."]

\* C4: userChits[m] contains p iff m is among the participants of pool p.
C4_IndexMatchesStore ==
    \A m \in Members, p \in Ids :
        (p \in Range(userChits[m])) <=> (m \in Range(chits[p].participants))

\* A member who created one pool and joined another.
C4_Witness ==
    \E m \in Members, p, q \in PoolIds :
        /\ p # q
        /\ chits[p].participants[1] = m
        /\ Len(chits[q].participants) >= 2
        /\ chits[q].participants[2] = m
        /\ Len(userChits[m]) = 2

\* C5: joinChit reports the first failing check in the order existence,
\* deadline, capacity, duplicate membership, and succeeds when none fails.
C5_JoinExpected(m, id) ==
    IF id \notin PoolIds THEN "NotFound"
    ELSE IF now >= chits[id].deadline THEN "Expired"
    ELSE IF Len(chits[id].participants) >= chits[id].participantLimit
        THEN "Full"
    ELSE IF m \in Range(chits[id].participants) THEN "AlreadyJoined"
    ELSE "ok"

C5_JoinCheckOrder ==
    \A m \in Members, id \in Ids :
        ErrorKind(joinChit(Ledger, m, id, now).res) = C5_JoinExpected(m, id)

\* Every pool is full and past its deadline, and a join was refused as
\* expired.
C5_Witness ==
    /\ chitCounter >= 1
    /\ \A id \in PoolIds : Full(id) /\ now > chits[id].deadline
    /\ last = [op |-> "joinChit", res |-> "Cannot join after deadline."]

\* C6 as stated: a pool of limit k never holds more than k distinct members,
\* and a further distinct member joining a pool that holds k always fails
\* with Full.
C6_NextMemberAlwaysFull ==
    \A id \in PoolIds :
        /\ Cardinality(Range(chits[id].participants))
                <= chits[id].participantLimit
        /\ \A m \in Members \ Range(chits[id].participants) :
                Len(chits[id].participants) = chits[id].participantLimit
                    => ErrorKind(joinChit(Ledger, m, id, now).res) = "Full"

\* C6 amended: a pool of limit k never holds more than k distinct members,
\* and a further distinct member joining a pool that holds k always fails:
\* with Full before the pool's deadline, with Expired from the deadline on.
C6_NextMemberFails ==
    \A id \in PoolIds :
        /\ Cardinality(Range(chits[id].participants))
                <= chits[id].participantLimit
        /\ \A m \in Members \ Range(chits[id].participants) :
                Len(chits[id].participants) = chits[id].participantLimit
                    => ErrorKind(joinChit(Ledger, m, id, now).res)
                        = (IF now < chits[id].deadline
                           THEN "Full" ELSE "Expired")

\* Every pool is full and open, one of them has limit 2 and a member outside
\* it, and a join was refused as full.
C6_Witness ==
    /\ \E id \in PoolIds :
        /\ chits[id].participantLimit = 2
        /\ Members \ Range(chits[id].participants) # {}
    /\ \A id \in PoolIds : Full(id) /\ ~Expired(id)
    /\ last = [op |-> "joinChit", res |-> "Chit is full."]

\* C7 as stated: a join by a member already among the participants always
\* fails with AlreadyJoined.
C7_MemberAlwaysAlreadyJoined ==
    \A id \in PoolIds :
        \A m \in Range(chits[id].participants) :
            ErrorKind(joinChit(Ledger, m, id, now).res) = "AlreadyJoined"

\* C7 amended: a join by a member already among the participants, the
\* creator included, always fails: with Expired from the pool's deadline on,
\* otherwise with Full when the pool is full, otherwise with AlreadyJoined.
C7_MemberNeverJoinsTwice ==
    \A id \in PoolIds :
        \A m \in Range(chits[id].participants) :
            ErrorKind(joinChit(Ledger, m, id, now).res)
                = (IF now >= chits[id].deadline THEN "Expired"
                   ELSE IF Len(chits[id].participants)
                            >= chits[id].participantLimit THEN "Full"
                   ELSE "AlreadyJoined")

\* The only pool holds its creator alone, and a join was refused as a
\* repeated one: the creator tried to join their own pool.
C7_Witness ==
    /\ chitCounter = 1
    /\ Len(chits[1].participants) = 1
    /\ last = [op |-> "joinChit", res |-> "Already joined this chit."]

\* C8: from a pool's deadline on (the deadline itself included) every join
\* fails with Expired and changes nothing, whoever calls and whatever room
\* is left.
C8_ExpiredFromDeadlineOn ==
    \A id \in PoolIds, m \in Members :
        now >= chits[id].deadline
            => /\ ErrorKind(joinChit(Ledger, m, id, now).res) = "Expired"
               /\ joinChit(Ledger, m, id, now).st = Ledger

\* The clock is exactly at the deadline of every pool, each pool has room
\* and a member outside it, and a join was refused as expired.
C8_Witness ==
    /\ chitCounter >= 1
    /\ \A id \in PoolIds :
        /\ now = chits[id].deadline
        /\ ~Full(id)
        /\ Members \ Range(chits[id].participants) # {}
    /\ last = [op |-> "joinChit", res |-> "Cannot join after deadline."]

\* C9: a createChit or joinChit call that fails leaves the counter, every
\* pool record, every userChits entry and the event log as they were.
C9_FailureChangesNothing ==
    [][(/\ last'.op \in {"createChit", "joinChit"}
        /\ last'.res # "ok")
            => UNCHANGED <<chitCounter, chits, userChits, log>>]_vars

\* A fresh ledger on which a creation with a deadline in the past has
\* failed: no id is consumed.
C9_Witness ==
    /\ chitCounter = 0
    /\ log = <<>>
    /\ \A d \in Deadlines : d < now
    /\ last = [op |-> "createChit", res |-> "Deadline must be in the future."]

\* C10 as stated: getParticipants fails with NotFound for every id no pool
\* has.
C10_UnknownIdNotFound ==
    last.op = "getParticipants"
        => \A id \in Ids \ PoolIds :
                ErrorKind(getParticipants(Ledger, id).res) = "NotFound"

\* The members of the successful joins of pool id, in commit order.
RECURSIVE JoinedMembers(_, _)
JoinedMembers(lg, id) ==
    IF lg = <<>> THEN <<>>
    ELSE LET e == lg[Len(lg)]
             front == JoinedMembers(SubSeq(lg, 1, Len(lg) - 1), id)
         IN  IF IsJoinedChit(e) /\ e.id = id
             THEN Append(front, e.participant) ELSE front

\* The creator named by the ChitCreated event of pool id.
CreatorOf(lg, id) ==
    LET c == SelectSeq(lg, IsChitCreated)
    IN  c[CHOOSE i \in 1 .. Len(c) : c[i].id = id].creator

IsPrefix(s, t) == Len(s) <= Len(t) /\ SubSeq(t, 1, Len(s)) = s

\* C11: for every pool, getParticipants returns the creator followed by the
\* members of the successful joins in commit order (m joins: m + 1 entries),
\* and every step leaves the earlier sequence a prefix of the later one.
C11_ParticipantsInCommitOrder ==
    /\ [](\A id \in PoolIds :
            getParticipants(Ledger, id).ret
                = <<CreatorOf(log, id)>> \o JoinedMembers(log, id))
    /\ [][\A id \in Ids :
            IsPrefix(chits[id].participants, chits'[id].participants)]_vars

\* A pool of three: the creator and two joins, read back in that order.
C11_Witness ==
    \E id \in PoolIds :
        /\ Len(getParticipants(Ledger, id).ret) = 3
        /\ Len(JoinedMembers(log, id)) = 2
        /\ last = [op |-> "getParticipants", res |-> "ok"]

\* C12: createChit fails with InvalidInput on an empty title or description
\* or a totalAmount, installmentAmount or participantLimit that is not
\* positive; otherwise with InvalidDeadline unless the deadline is strictly
\* after the current time; otherwise it succeeds, storing under the next id
\* a pool with the inputs, participants = <<creator>> and createdAt = now,
\* indexing the id for the creator and emitting ChitCreated. Stated of every
\* input in every state in which createChit has just been called.
C12_CreateExpected(f, participantLimit, deadline) ==
    IF \/ Len(f[1]) = 0
       \/ Len(f[2]) = 0
       \/ f[3] <= 0
       \/ f[4] <= 0
       \/ participantLimit <= 0
    THEN "InvalidInput"
    ELSE IF ~(deadline > now) THEN "InvalidDeadline"
    ELSE "ok"

C12_CreateOutcome ==
    last.op = "createChit" =>
    \A sender \in Members, f \in Strings \X Strings \X Amounts \X Amounts,
       participantLimit \in Limits, deadline \in Deadlines :
        LET r == createChit(Ledger, sender, f[1], f[2], f[3], f[4],
                            participantLimit, deadline, now)
            id == chitCounter + 1
        IN  /\ ErrorKind(r.res) = C12_CreateExpected(f, participantLimit, deadline)
            /\ r.res = "ok" =>
                /\ r.st.chitCounter = id
                /\ r.st.chits =
                    [chits EXCEPT ![id] =
                        [id |-> id, title |-> f[1], description |-> f[2],
                         totalAmount |-> f[3], installmentAmount |-> f[4],
                         deadline |-> deadline, createdAt |-> now,
                         participantLimit |-> participantLimit,
                         participants |-> <<sender>>, isCompleted |-> FALSE]]
                /\ r.st.userChits =
                    [userChits EXCEPT ![sender] = Append(@, id)]
                /\ r.st.log = Append(log,
                        [name |-> "ChitCreated", id |-> id, title |-> f[1],
                         totalAmount |-> f[3],
                         participantLimit |-> participantLimit,
                         creator |-> sender])

\* After one creation that succeeded, a creation whose deadline is the
\* current time was refused (at time 0 the only deadline refused is 0).
C12_Witness ==
    /\ chitCounter = 1
    /\ now = 0
    /\ last = [op |-> "createChit", res |-> "Deadline must be in the future."]

\* C13: every stored pool has createdAt < deadline, a title and a
\* description that are not empty, and a positive totalAmount,
\* installmentAmount and participantLimit.
C13_StoredPoolsValid ==
    \A id \in PoolIds :
        /\ chits[id].createdAt < chits[id].deadline
        /\ Len(chits[id].title) > 0
        /\ Len(chits[id].description) > 0
        /\ chits[id].totalAmount > 0
        /\ chits[id].installmentAmount > 0
        /\ chits[id].participantLimit > 0

\* Two pools are stored and the clock has passed the deadline of the first.
C13_Witness ==
    /\ chitCounter >= 2
    /\ now > chits[1].deadline

\* C14: getChits returns exactly as many pools as creations have succeeded,
\* its i-th entry being the stored pool with id i: every pool, in ascending
\* id order, and no placeholder record.
C14_ListsEveryPool ==
    LET list == getChits(Ledger).ret
        N == Len(SelectSeq(log, IsChitCreated))
    IN  /\ DOMAIN list = 1 .. N
        /\ \A i \in 1 .. N :
            /\ list[i].id = i
            /\ list[i] = chits[i]
            /\ list[i].participants # <<>>

\* Two pools created, and the list read.
C14_Witness ==
    /\ Len(SelectSeq(log, IsChitCreated)) = 2
    /\ Len(getChits(Ledger).ret) = 2
    /\ last = [op |-> "getChits", res |-> "ok"]

\* C15 as stated: for the wallet of every member m and every pool, the pool
\* is in the list of fetchMyChits iff m is among its participants, and in
\* the list of fetchCreatedChits iff m is its first participant.
C15_ViewsMatchStore ==
    last.op = "getChits" =>
        \A m \in Members, id \in PoolIds :
            LET mine == fetchMyChits(Ledger, checksumAddress(m))
                created == fetchCreatedChits(Ledger, checksumAddress(m))
            IN  /\ (\E i \in 1 .. Len(mine) : mine[i].id = id)
                    <=> (m \in Range(chits[id].participants))
                /\ (\E i \in 1 .. Len(created) : created[i].id = id)
                    <=> (chits[id].participants[1] = m)

\* C16: the log gains exactly one ChitCreated event in a step in which
\* createChit succeeds and one JoinedChit event in a step in which joinChit
\* succeeds, carrying the id and the member of that call, and nothing in any
\* other step, so the events are in commit order; and every event in the log
\* reports a mutation that the storage (record, participants, index) holds.
C16_EventReportsStore(e) ==
    IF IsChitCreated(e)
    THEN /\ e.id \in PoolIds
         /\ chits[e.id].participants[1] = e.creator
         /\ chits[e.id].title = e.title
         /\ chits[e.id].totalAmount = e.totalAmount
         /\ chits[e.id].participantLimit = e.participantLimit
         /\ e.id \in Range(userChits[e.creator])
    ELSE /\ e.id \in PoolIds
         /\ e.participant \in Range(chits[e.id].participants)
         /\ e.id \in Range(userChits[e.participant])

C16_OneEventPerCommit ==
    IF last'.op = "createChit" /\ last'.res = "ok"
    THEN /\ chitCounter' = chitCounter + 1
         /\ \E m \in Members :
                /\ chits'[chitCounter'].participants = <<m>>
                /\ log' = Append(log,
                        [name |-> "ChitCreated", id |-> chitCounter',
                         title |-> chits'[chitCounter'].title,
                         totalAmount |-> chits'[chitCounter'].totalAmount,
                         participantLimit |->
                            chits'[chitCounter'].participantLimit,
                         creator |-> m])
    ELSE IF last'.op = "joinChit" /\ last'.res = "ok"
    THEN \E id \in PoolIds, m \in Members :
            /\ chits'[id].participants = Append(chits[id].participants, m)
            /\ log' = Append(log,
                    [name |-> "JoinedChit", id |-> id, participant |-> m])
    ELSE log' = log

C16_EventsMatchCommits ==
    /\ [](/\ Len(SelectSeq(log, IsChitCreated)) = chitCounter
          /\ \A id \in PoolIds :
                Len(JoinedMembers(log, id)) + 1 = Len(chits[id].participants)
          /\ \A i \in 1 .. Len(log) : C16_EventReportsStore(log[i]))
    /\ [][C16_OneEventPerCommit]_vars

\* A creation and a join are in the log, in that order, and the join that
\* followed was refused and left no event.
C16_Witness ==
    /\ Len(log) = 2
    /\ IsChitCreated(log[1])
    /\ IsJoinedChit(log[2])
    /\ last = [op |-> "joinChit", res |-> "Chit is full."]

\* C17: a step in which joinChit succeeds appends one member to the
\* participants of one pool and that pool's id to that member's userChits,
\* and changes nothing else of the counter, the pools and the index; a step
\* in which createChit succeeds changes no pool that existed; and
\* isCompleted is false in every record in every reachable state.
C17_Frame ==
    /\ last'.op = "joinChit" /\ last'.res = "ok" =>
        /\ chitCounter' = chitCounter
        /\ \E id \in PoolIds, m \in Members :
            /\ chits' = [chits EXCEPT ![id].participants = Append(@, m)]
            /\ userChits' = [userChits EXCEPT ![m] = Append(@, id)]
    /\ last'.op = "createChit" /\ last'.res = "ok" =>
        \A id \in PoolIds : chits'[id] = chits[id]

C17_OnlyParticipantsGrow ==
    /\ [](\A id \in Ids : chits[id].isCompleted = FALSE)
    /\ [][C17_Frame]_vars

\* Two pools exist, and a join has just filled one of them.
C17_Witness ==
    /\ chitCounter = 2
    /\ \E id \in PoolIds :
        /\ Len(chits[id].participants) >= 2
        /\ Full(id)
    /\ last = [op |-> "joinChit", res |-> "ok"]

\* The members whose userChits holds the id.
IndexedMembers(index, id) == {m \in Members : id \in Range(index[m])}

\* C18: with a clock that never goes back, a pool whose deadline the clock
\* has reached stays so, and no step changes its participants or the set of
\* members whose index holds its id.
C18_FrozenAfterDeadline ==
    [][\A id \in PoolIds :
        Expired(id) =>
            /\ Expired(id)'
            /\ chits'[id].participants = chits[id].participants
            /\ IndexedMembers(userChits', id) = IndexedMembers(userChits, id)
      ]_vars

\* The clock is past the deadline of a pool with room and a member outside
\* it, and a join was refused as expired.
C18_Witness ==
    /\ chitCounter >= 1
    /\ \A id \in PoolIds :
        /\ now > chits[id].deadline
        /\ ~Full(id)
        /\ Members \ Range(chits[id].participants) # {}
    /\ last = [op |-> "joinChit", res |-> "Cannot join after deadline."]

\* C19: the record at key i has id i and at least one participant for
\* every i in 1 .. counter, and id 0 and no participant at every other key;
\* so joinChit finds a pool at exactly the ids 1 .. counter, and at id 0
\* never.
C19_RecordsAtAllocatedIds ==
    /\ \A i \in Ids :
        IF i \in PoolIds
        THEN chits[i].id = i /\ Len(chits[i].participants) >= 1
        ELSE chits[i].id = 0 /\ chits[i].participants = <<>>
    /\ \A i \in Ids, m \in Members :
        (joinChit(Ledger, m, i, now).res # "Chit does not exist.")
            <=> (i \in PoolIds)
    /\ \A m \in Members :
        joinChit(Ledger, m, 0, now).res = "Chit does not exist."

\* A pool exists, none is beyond its deadline, and a join was refused for
\* an id without a pool.
C19_Witness ==
    /\ chitCounter >= 1
    /\ \A id \in PoolIds : ~Expired(id)
    /\ last = [op |-> "joinChit", res |-> "Chit does not exist."]

\* C20: userChits[m] holds no id twice, holds only ids of 1 .. counter, and
\* is as long as the number of pools whose participants contain m.
C20_IndexIsASet ==
    \A m \in Members :
        /\ \A i, j \in 1 .. Len(userChits[m]) :
                userChits[m][i] = userChits[m][j] => i = j
        /\ \A i \in 1 .. Len(userChits[m]) : userChits[m][i] \in PoolIds
        /\ Len(userChits[m])
            = Cardinality({p \in PoolIds : m \in Range(chits[p].participants)})

\* One member is in two pools, another in none.
C20_Witness ==
    /\ \E m \in Members : Len(userChits[m]) = 2
    /\ \E m \in Members : Len(userChits[m]) = 0
    /\ last = [op |-> "joinChit", res |-> "ok"]

====
